---- MODULE Spec2Model ----
(***************************************************************************)
(* Model of src/app.py (the "AI stock war room" Streamlit script): the     *)
(* forecast wrapper predict_stock, the holdout backtest backtest_model,    *)
(* the rating classifier plot_gauge with its explanation text, and the     *)
(* main script that chains them.                                           *)
(*                                                                         *)
(* Prices are integers in a fixed price unit.  A Python/numpy float is a   *)
(* record [k, n, d]: k = "fin" is the exact rational n/d in lowest terms   *)
(* (d > 0); k = "inf", "ninf", "nan" are the IEEE specials; k = "none" is  *)
(* a variable not assigned yet.  Dates are day numbers, day 0 a Monday.    *)
(***************************************************************************)
EXTENDS Integers, Sequences, FiniteSets, TLC

VARIABLES
    pc,             \* position of the script
    hist,           \* the fetched history: sequence of [ds, y] (Date, Close)
    forecast_days,  \* the "forecast days" selectbox
    prophet,        \* behaviour of the external regressor in this run
    numeric,        \* "numpy" (values read from a DataFrame) or "python"
    err,            \* the exception raised, "none" if none
    current_price, prev_price, delta, pct,
    raw_forecast,   \* m.predict(future) before the clip
    forecast,       \* what predict_stock returns
    future_price,
    chg_pct, rating, explanation,
    test_days, train_df, test_df,
    fit_input,      \* the frame backtest_model's m.fit was called with
    forecast_tail, result, acc_score, score_color

vars == <<pc, hist, forecast_days, prophet, numeric, err, current_price,
          prev_price, delta, pct, raw_forecast, forecast, future_price,
          chg_pct, rating, explanation, test_days, train_df, test_df,
          fit_input, forecast_tail, result, acc_score, score_color>>

----------------------------------------------------------------------------
(* Bounds of the model *)

MaxLen == 7          \* longest history
MaxClose == 2        \* largest close, in price units
MaxTestDays == 3     \* backtest_model is also called with test_days 1..MaxTestDays
ShortClosure == 1    \* calendar days of a one-day market holiday
LongClosure == 7     \* calendar days of a long market closure
PriceScale == 100000 \* classifier inputs: current prices are multiples of it
MaxCurrentK == 3     \* ... up to MaxCurrentK * PriceScale
Window == 2          \* future prices within Window units of each boundary

(* Program constants *)

DefaultTestDays == 5                 \* def backtest_model(data, test_days=5)
ForecastDaysOptions == {30, 60, 90, 180}
Decimals == 3                        \* round(raw_change_pct, 3)

----------------------------------------------------------------------------
(* Floats *)

AbsInt(x) == IF x < 0 THEN -x ELSE x

RECURSIVE Gcd(_, _)
Gcd(a, b) == IF b = 0 THEN a ELSE Gcd(b, a % b)

Fin(n, d) ==
    LET g == Gcd(AbsInt(n), d)
    IN  [k |-> "fin", n |-> n \div g, d |-> d \div g]

F(i) == [k |-> "fin", n |-> i, d |-> 1]
Inf == [k |-> "inf", n |-> 0, d |-> 1]
NegInf == [k |-> "ninf", n |-> 0, d |-> 1]
NaN == [k |-> "nan", n |-> 0, d |-> 1]
None == [k |-> "none", n |-> 0, d |-> 1]

FNeg(a) ==
    CASE a.k = "fin" -> Fin(-a.n, a.d)
      [] a.k = "inf" -> NegInf
      [] a.k = "ninf" -> Inf
      [] OTHER -> a

FAdd(a, b) ==
    CASE a.k = "nan" \/ b.k = "nan" -> NaN
      [] a.k = "fin" /\ b.k = "fin" -> Fin(a.n * b.d + b.n * a.d, a.d * b.d)
      [] a.k = "fin" -> b
      [] b.k = "fin" -> a
      [] a.k = b.k -> a
      [] OTHER -> NaN

FSub(a, b) == FAdd(a, FNeg(b))

FAbs(a) ==
    CASE a.k = "fin" -> Fin(AbsInt(a.n), a.d)
      [] a.k = "ninf" -> Inf
      [] OTHER -> a

FMulInt(a, m) == IF a.k = "fin" THEN Fin(a.n * m, a.d) ELSE a

FSign(a) ==
    CASE a.k = "fin" -> (IF a.n > 0 THEN 1 ELSE IF a.n < 0 THEN -1 ELSE 0)
      [] a.k = "inf" -> 1
      [] a.k = "ninf" -> -1
      [] OTHER -> 0

(* numpy float64 division: x/0 is inf or nan with a RuntimeWarning, never an
   exception *)
FDiv(a, b) ==
    CASE a.k = "nan" \/ b.k = "nan" -> NaN
      [] a.k # "fin" /\ b.k # "fin" -> NaN
      [] a.k = "fin" /\ b.k # "fin" -> F(0)
      [] FSign(b) = 0 ->
            (IF FSign(a) = 0 THEN NaN ELSE IF FSign(a) > 0 THEN Inf ELSE NegInf)
      [] a.k # "fin" ->
            (IF FSign(a) * FSign(b) > 0 THEN Inf ELSE NegInf)
      [] OTHER -> Fin(a.n * b.d * FSign(b), a.d * AbsInt(b.n))

(* a >= i and a > i for an integer i; every comparison with nan is False *)
FGe(a, i) ==
    CASE a.k = "fin" -> a.n >= i * a.d
      [] a.k = "inf" -> TRUE
      [] OTHER -> FALSE

FGt(a, i) ==
    CASE a.k = "fin" -> a.n > i * a.d
      [] a.k = "inf" -> TRUE
      [] OTHER -> FALSE

RECURSIVE Pow10(_)
Pow10(e) == IF e = 0 THEN 1 ELSE 10 * Pow10(e - 1)

(* round(x, ndigits): the nearest multiple of 10^-ndigits.  An exact tie is
   decided by the binary representation of the float, which the rational
   does not determine: both neighbours are possible.  inf and nan round to
   themselves. *)
round(x, ndigits) ==
    IF x.k # "fin" THEN {x}
    ELSE LET p == Pow10(ndigits)
             ip == x.n \div x.d
             r == x.n % x.d
             fr == (r * p) \div x.d
             r2 == (r * p) % x.d
             lo == ip * p + fr
         IN  IF 2 * r2 < x.d THEN {Fin(lo, p)}
             ELSE IF 2 * r2 > x.d THEN {Fin(lo + 1, p)}
             ELSE {Fin(lo, p), Fin(lo + 1, p)}

----------------------------------------------------------------------------
(* plot_gauge and get_ai_explanation *)

(* GaugeRating with the Buy test written > 5 instead of >= 5 *)
GaugeRatingStrictBuy(change_pct) ==
    IF FGe(change_pct, 10) THEN "StrongBuy"
    ELSE IF FGt(change_pct, 5) THEN "Buy"
    ELSE IF FGt(change_pct, -5) THEN "Hold"
    ELSE IF FGt(change_pct, -10) THEN "Sell"
    ELSE "StrongSell"

GaugeRating(change_pct) ==
    IF FGe(change_pct, 10) THEN "StrongBuy"
    ELSE IF FGe(change_pct, 5) THEN "Buy"
    ELSE IF FGt(change_pct, -5) THEN "Hold"
    ELSE IF FGt(change_pct, -10) THEN "Sell"
    ELSE "StrongSell"

(* The outcomes of plot_gauge(current, future, c_symbol): one per possible
   rounding.  Plain Python numbers raise ZeroDivisionError on a zero
   current; numpy scalars do not. *)
plot_gauge(current, future, num) ==
    IF num = "python" /\ FSign(current) = 0 /\ current.k = "fin"
    THEN {[raised |-> "ZeroDivisionError", change_pct |-> None, rating |-> "none"]}
    ELSE LET raw_change_pct == FMulInt(FDiv(FSub(future, current), current), 100)
         IN  {[raised |-> "none", change_pct |-> c, rating |-> GaugeRating(c)] :
                 c \in round(raw_change_pct, Decimals)}

(* get_ai_explanation with the hold test written >= -5 instead of > -5 *)
get_ai_explanation_hold_at_minus5(p) ==
    IF FGe(p, 10) THEN "StrongBullish"
    ELSE IF FGe(p, 5) THEN "Bullish"
    ELSE IF FGe(p, -5) THEN "HoldRange"
    ELSE IF FGt(p, -10) THEN "Bearish"
    ELSE "StrongBearish"

get_ai_explanation(p) ==
    IF FGe(p, 10) THEN "StrongBullish"
    ELSE IF FGe(p, 5) THEN "Bullish"
    ELSE IF FGt(p, -5) THEN "HoldRange"
    ELSE IF FGt(p, -10) THEN "Bearish"
    ELSE "StrongBearish"

----------------------------------------------------------------------------
(* Dates and the external regressor (Prophet) *)

(* The first business day after day d (days 5 and 6 of a week are the
   weekend): pandas' freq='B'. *)
NextBDay(d) ==
    LET w == d % 7
    IN  IF w = 4 THEN d + 3 ELSE IF w = 5 THEN d + 2 ELSE d + 1

(* The i-th business day after day d: i - 1 business days on from the first *)
NthBDayAfter(d, i) ==
    LET b == NextBDay(d)
        w == b % 7
    IN  b + ((w + i - 1) \div 5) * 7 + ((w + i - 1) % 5) - w

(* The n business days that follow day d. *)
BDaysAfter(d, n) == [i \in 1 .. n |-> NthBDayAfter(d, i)]

(* How the regressor behaves in a run: its forecast is the last training
   value plus offset, moving by slope per period, with an interval of
   +/- width.  In-sample rows are the observed value plus offset. *)
Regressors == [offset : -1 .. 1, slope : -1 .. 1, width : 0 .. 1]

(* m.fit(df): Prophet refuses a frame with fewer than 2 rows. *)
ProphetFitRaises(df) == Len(df) < 2

(* m.make_future_dataframe(periods, freq='B'): the training dates followed
   by the next `periods` business days. *)
make_future_dataframe(df, periods) ==
    [i \in 1 .. Len(df) |-> df[i].ds] \o BDaysAfter(df[Len(df)].ds, periods)

(* m.predict(future): one row per date of future. *)
ProphetPredict(df, future, reg) ==
    [i \in 1 .. Len(future) |->
        LET yh == IF i <= Len(df) THEN df[i].y + reg.offset
                  ELSE df[Len(df)].y + reg.offset + reg.slope * (i - Len(df))
        IN  [ds |-> future[i], yhat |-> yh,
             yhat_lower |-> yh - reg.width, yhat_upper |-> yh + reg.width]]

----------------------------------------------------------------------------
(* predict_stock *)

(* clip written with upper= instead of lower= *)
clip_upper(x, lower) == IF x > lower THEN lower ELSE x

(* Series.clip(lower=...) on one value *)
clip(x, lower) == IF x < lower THEN lower ELSE x

predict_stock(data, days, reg) ==
    LET df_train == data
    IN  IF ProphetFitRaises(df_train)
        THEN [raised |-> "ValueError", raw |-> <<>>, forecast |-> <<>>]
        ELSE LET future == make_future_dataframe(df_train, days)
                 raw == ProphetPredict(df_train, future, reg)
             IN  [raised |-> "none", raw |-> raw,
                  forecast |-> [i \in 1 .. Len(raw) |->
                      [ds |-> raw[i].ds,
                       yhat |-> clip(raw[i].yhat, 0),
                       yhat_lower |-> clip(raw[i].yhat_lower, 0),
                       yhat_upper |-> clip(raw[i].yhat_upper, 0)]]]

----------------------------------------------------------------------------
(* backtest_model *)

(* A Python slice bound i on a sequence of length L *)
SliceIndex(i, L) ==
    IF i < 0 THEN (IF i + L < 0 THEN 0 ELSE i + L)
    ELSE (IF i > L THEN L ELSE i)

(* iloc[:stop] cutting one row late: the first held-out row stays in *)
IlocUntilOneLate(df, stop) ==
    SubSeq(df, 1, SliceIndex(SliceIndex(stop, Len(df)) + 1, Len(df)))

(* df.iloc[:stop] and df.iloc[start:] *)
IlocUntil(df, stop) == SubSeq(df, 1, SliceIndex(stop, Len(df)))
IlocFrom(df, start) == SubSeq(df, SliceIndex(start, Len(df)) + 1, Len(df))

(* df.tail(n) *)
tail(df, n) == IF n = 0 THEN <<>> ELSE IlocFrom(df, -n)

(* The two frames joined by position instead of by date *)
merge_by_position(left, right) ==
    [i \in 1 .. (IF Len(left) < Len(right) THEN Len(left) ELSE Len(right)) |->
        [ds |-> left[i].ds, y |-> left[i].y, yhat |-> right[i].yhat]]

(* pd.merge(left, right, on='ds', how='inner'): for each left row, in
   order, one row per right row of the same ds. *)
RECURSIVE merge(_, _)
merge(left, right) ==
    IF left = <<>> THEN <<>>
    ELSE LET l == Head(left)
             Same(r) == r.ds = l.ds
             m == SelectSeq(right, Same)
         IN  [j \in 1 .. Len(m) |-> [ds |-> l.ds, y |-> l.y, yhat |-> m[j].yhat]]
             \o merge(Tail(left), right)

(* ((y - yhat).abs() / y) * 100 of one row *)
error_pct(row) ==
    FMulInt(FDiv(FAbs(FSub(F(row.y), F(row.yhat))), F(row.y)), 100)

RECURSIVE FSum(_)
FSum(s) == IF s = <<>> THEN F(0) ELSE FAdd(Head(s), FSum(Tail(s)))

(* Series.mean(): NaN entries are skipped (skipna), inf entries are not;
   the mean of nothing is NaN. *)
mean(s) ==
    LET NotNaN(x) == x.k # "nan"
        kept == SelectSeq(s, NotNaN)
    IN  IF kept = <<>> THEN NaN ELSE FDiv(FSum(kept), F(Len(kept)))

(* What m.fit was called with, in backtest_model *)
NotFitted == [called |-> FALSE, df |-> <<>>]
Fitted(df) == [called |-> TRUE, df |-> df]

backtest_model(data, n, reg) ==
    LET df_full == data
        train == IlocUntil(df_full, -n)
        test == IlocFrom(df_full, -n)
    IN  IF ProphetFitRaises(train)
        THEN [raised |-> "ValueError", train_df |-> train, test_df |-> test,
              fit_input |-> Fitted(train), forecast_tail |-> <<>>, result |-> <<>>,
              acc_score |-> None]
        ELSE LET future == make_future_dataframe(train, n)
                 fc == ProphetPredict(train, future, reg)
                 ftail == tail(fc, n)
                 merged == merge(test, ftail)
                 res == [i \in 1 .. Len(merged) |->
                            [ds |-> merged[i].ds, y |-> merged[i].y,
                             yhat |-> merged[i].yhat,
                             error_pct |-> error_pct(merged[i])]]
                 errs == [i \in 1 .. Len(res) |-> res[i].error_pct]
             IN  [raised |-> "none", train_df |-> train, test_df |-> test,
                  fit_input |-> Fitted(train), forecast_tail |-> ftail, result |-> res,
                  acc_score |-> FSub(F(100), mean(errs))]

----------------------------------------------------------------------------
(* Inputs *)

Closures == {ShortClosure, LongClosure}

(* L trading days from day 0; before row g (g = 0: never) the market is
   closed for c calendar days starting on the next business day. *)
TradingDates(L, g, c) ==
    LET D[i \in 1 .. L] ==
            IF i = 1 THEN 0
            ELSE IF i = g THEN NextBDay(NextBDay(D[i - 1]) + c - 1)
            ELSE NextBDay(D[i - 1])
    IN  D

(* Closes of MaxClose, row k (k = 0: none) closing at v instead. *)
MkHist(L, g, c, k, v) ==
    LET D == TradingDates(L, g, c)
    IN  [i \in 1 .. L |-> [ds |-> D[i], y |-> IF i = k THEN v ELSE MaxClose]]

HistAll ==
    UNION {{MkHist(L, g, c, k, v) :
                g \in {0} \cup 2 .. L, c \in Closures,
                k \in 0 .. L, v \in 0 .. MaxClose - 1} : L \in 0 .. MaxLen}

HistMain ==
    UNION {{MkHist(L, g, c, 0, 0) : g \in {0} \cup 2 .. L, c \in Closures}
           \cup {MkHist(L, 0, 0, k, v) : k \in 0 .. L, v \in 0 .. MaxClose - 1} :
           L \in 0 .. MaxLen}

TestDaysSet == 1 .. MaxTestDays \cup {DefaultTestDays}

(* Classifier inputs: future prices around each rating boundary of the
   current price, the current price itself and zero. *)
CurrentPrices == {k * PriceScale : k \in 0 .. MaxCurrentK}

FuturePrices(c) ==
    {0, c, PriceScale}
    \cup {f \in {c + (c * b) \div 100 + j : b \in {-10, -5, 5, 10},
                                            j \in -Window .. Window} : f >= 0}

----------------------------------------------------------------------------
(* The main script *)

Last(s) == s[Len(s)]

(* (A) the info card: hist.iloc[-1], hist.iloc[-2], delta and pct.  An empty
   history shows "not found"; iloc[-2] on one row raises IndexError outside
   the try block. *)
InfoCard ==
    /\ pc = "card"
    /\ IF hist = <<>>
       THEN /\ pc' = "notfound"
            /\ UNCHANGED <<err, current_price, prev_price, delta, pct>>
       ELSE IF Len(hist) < 2
       THEN /\ pc' = "crashed"
            /\ err' = "IndexError"
            /\ current_price' = F(Last(hist).y)
            /\ UNCHANGED <<prev_price, delta, pct>>
       ELSE /\ pc' = "predict"
            /\ current_price' = F(Last(hist).y)
            /\ prev_price' = F(hist[Len(hist) - 1].y)
            /\ delta' = FSub(current_price', prev_price')
            /\ pct' = FMulInt(FDiv(delta', prev_price'), 100)
            /\ err' = err
    /\ UNCHANGED <<hist, forecast_days, prophet, numeric, raw_forecast,
                   forecast, future_price, chg_pct, rating, explanation,
                   test_days, train_df, test_df, fit_input, forecast_tail,
                   result, acc_score, score_color>>

(* (C) m, forecast = predict_stock(hist, forecast_days);
       future_price = forecast['yhat'].iloc[-1] *)
PredictStock ==
    /\ pc = "predict"
    /\ LET out == predict_stock(hist, forecast_days, prophet)
       IN  IF out.raised # "none"
           THEN /\ pc' = "failed"
                /\ err' = out.raised
                /\ UNCHANGED <<raw_forecast, forecast, future_price>>
           ELSE /\ pc' = "gauge"
                /\ raw_forecast' = out.raw
                /\ forecast' = out.forecast
                /\ future_price' = F(Last(out.forecast).yhat)
                /\ err' = err
    /\ UNCHANGED <<hist, forecast_days, prophet, numeric, current_price,
                   prev_price, delta, pct, chg_pct, rating, explanation,
                   test_days, train_df, test_df, fit_input, forecast_tail,
                   result, acc_score, score_color>>

(* gauge, chg_pct = plot_gauge(current_price, future_price, currency_symbol) *)
PlotGauge ==
    /\ pc = "gauge"
    /\ \E out \in plot_gauge(current_price, future_price, numeric) :
          IF out.raised # "none"
          THEN /\ pc' = "failed"
               /\ err' = out.raised
               /\ UNCHANGED <<chg_pct, rating>>
          ELSE /\ pc' = "explain"
               /\ chg_pct' = out.change_pct
               /\ rating' = out.rating
               /\ err' = err
    /\ UNCHANGED <<hist, forecast_days, prophet, numeric, current_price,
                   prev_price, delta, pct, raw_forecast, forecast,
                   future_price, explanation, test_days, train_df, test_df,
                   fit_input, forecast_tail, result, acc_score, score_color>>

(* st.info(get_ai_explanation(real_symbol, forecast_days, chg_pct)) *)
GetAiExplanation ==
    /\ pc = "explain"
    /\ explanation' = get_ai_explanation(chg_pct)
    /\ pc' = "backtest"
    /\ UNCHANGED <<hist, forecast_days, prophet, numeric, err, current_price,
                   prev_price, delta, pct, raw_forecast, forecast,
                   future_price, chg_pct, rating, test_days, train_df,
                   test_df, fit_input, forecast_tail, result, acc_score,
                   score_color>>

(* (E) acc, bt_df = backtest_model(hist) *)
BacktestModel ==
    /\ pc = "backtest"
    /\ LET out == backtest_model(hist, test_days, prophet)
       IN  /\ train_df' = out.train_df
           /\ test_df' = out.test_df
           /\ fit_input' = out.fit_input
           /\ forecast_tail' = out.forecast_tail
           /\ result' = out.result
           /\ acc_score' = out.acc_score
           /\ err' = IF out.raised # "none" THEN out.raised ELSE err
           /\ pc' = IF out.raised # "none" THEN "failed" ELSE "render"
    /\ UNCHANGED <<hist, forecast_days, prophet, numeric, current_price,
                   prev_price, delta, pct, raw_forecast, forecast,
                   future_price, chg_pct, rating, explanation, test_days,
                   score_color>>

(* score_color and the table of the backtest *)
RenderBacktest ==
    /\ pc = "render"
    /\ score_color' = IF FGe(acc_score, 90) THEN "green"
                      ELSE IF FGe(acc_score, 80) THEN "orange" ELSE "red"
    /\ pc' = "done"
    /\ UNCHANGED <<hist, forecast_days, prophet, numeric, err, current_price,
                   prev_price, delta, pct, raw_forecast, forecast,
                   future_price, chg_pct, rating, explanation, test_days,
                   train_df, test_df, fit_input, forecast_tail, result,
                   acc_score>>

Unset ==
    /\ err = "none"
    /\ prev_price = None /\ delta = None /\ pct = None
    /\ raw_forecast = <<>> /\ forecast = <<>>
    /\ chg_pct = None /\ rating = "none" /\ explanation = "none"
    /\ train_df = <<>> /\ test_df = <<>> /\ fit_input = NotFitted
    /\ forecast_tail = <<>> /\ result = <<>>
    /\ acc_score = None /\ score_color = "none"

(* One run of the script on a fetched history. *)
Init ==
    /\ pc = "card"
    /\ hist \in HistMain
    /\ forecast_days \in ForecastDaysOptions
    /\ prophet \in Regressors
    /\ numeric = "numpy"
    /\ test_days = DefaultTestDays
    /\ current_price = None /\ future_price = None
    /\ Unset

Next ==
    \/ InfoCard
    \/ PredictStock
    \/ PlotGauge
    \/ GetAiExplanation
    \/ BacktestModel
    \/ RenderBacktest

Spec == Init /\ [][Next]_vars

(* The classifier on its own: plot_gauge, then get_ai_explanation on the
   change it returns. *)
InitClassify ==
    /\ pc = "gauge"
    /\ hist = <<>>
    /\ forecast_days = 30
    /\ prophet = [offset |-> 0, slope |-> 0, width |-> 0]
    /\ numeric \in {"numpy", "python"}
    /\ test_days = DefaultTestDays
    /\ \E c \in CurrentPrices :
          /\ current_price = F(c)
          /\ future_price \in {F(f) : f \in FuturePrices(c)}
    /\ Unset

NextClassify == PlotGauge \/ GetAiExplanation

SpecClassify == InitClassify /\ [][NextClassify]_vars

(* backtest_model on its own, for every test_days. *)
InitBacktest ==
    /\ pc = "backtest"
    /\ hist \in HistAll
    /\ forecast_days = 30
    /\ prophet \in {r \in Regressors : r.width = 0}
    /\ numeric = "numpy"
    /\ test_days \in TestDaysSet
    /\ current_price = None /\ future_price = None
    /\ Unset

NextBacktest == BacktestModel \/ RenderBacktest

SpecBacktest == InitBacktest /\ [][NextBacktest]_vars

----------------------------------------------------------------------------
(* Properties of the classifier *)

(* The five-way partition of the reals with boundaries -10, -5, 5, 10 *)
PartitionRating(x) ==
    CASE FGe(x, 10) -> "StrongBuy"
      [] FGe(x, 5) /\ ~FGe(x, 10) -> "Buy"
      [] FGt(x, -5) /\ ~FGe(x, 5) -> "Hold"
      [] FGt(x, -10) /\ ~FGt(x, -5) -> "Sell"
      [] OTHER -> "StrongSell"

(* (future - current) / current * 100, exactly *)
ExactChangePct == FMulInt(FDiv(FSub(future_price, current_price), current_price), 100)

PositiveCurrent == current_price.k = "fin" /\ current_price.n > 0

GaugeReturned == rating # "none"

(* x = t / 10^Decimals for an integer t that is a nearest one to e *)
IsNearestThousandth(x, e) ==
    /\ x.k = "fin" /\ e.k = "fin"
    /\ Pow10(Decimals) % x.d = 0
    /\ LET p == Pow10(Decimals)
           t == x.n * (p \div x.d)
           ip == e.n \div e.d
           r == e.n % e.d
           m == t - p * ip
       IN  /\ m \in 0 .. p
           /\ 2 * AbsInt(m * e.d - p * r) <= e.d

(* The exact change lies halfway between two multiples of 0.001, where the
   binary value of the float decides the rounding *)
OnRoundingTie == Cardinality(round(ExactChangePct, Decimals)) = 2

(* C1 as stated: for current > 0 and future >= 0 the rating plot_gauge
   assigns is the partition bucket of the exact change_pct.  Stated for the
   inputs whose rounding does not depend on the float's binary value. *)
C1_RatingOfExactChange ==
    (GaugeReturned /\ PositiveCurrent /\ ~OnRoundingTie) =>
        rating = PartitionRating(ExactChangePct)

(* C1 as amended: the rating is the partition bucket of the change_pct that
   plot_gauge returns, which is the exact change rounded to 3 decimals (a
   nearest multiple of 0.001); so -5.000 is Sell, 5.000 is Buy and 10.000 is
   StrongBuy, and an exact change less than 0.0005 below 5 or 10 (or not more
   than 0.0005 above -5 or -10) is rated as that boundary value. *)
C1_RatingOfRoundedChange ==
    (GaugeReturned /\ PositiveCurrent) =>
        /\ IsNearestThousandth(chg_pct, ExactChangePct)
        /\ rating = PartitionRating(chg_pct)
        /\ (chg_pct = F(-5) => rating = "Sell")
        /\ (chg_pct = F(5) => rating = "Buy")
        /\ (chg_pct = F(10) => rating = "StrongBuy")

(* The rounding moves a change across a boundary: an exact change below 10,
   and not on a rounding tie, is rated StrongBuy. *)
C1_Witness ==
    /\ GaugeReturned /\ PositiveCurrent /\ ~OnRoundingTie
    /\ rating = "StrongBuy"
    /\ ~FGe(ExactChangePct, 10)
    /\ chg_pct = F(10)

(* C4 as stated: called with current_price = 0, the classifier fails with a
   division-by-zero error and produces no rating and no change_pct. *)
C4_ZeroCurrentRaises ==
    (current_price = F(0) /\ (GaugeReturned \/ err = "ZeroDivisionError")) =>
        /\ err = "ZeroDivisionError"
        /\ rating = "none"
        /\ chg_pct = None

RatingBucket(r) ==
    CASE r = "StrongBuy" -> 5 [] r = "Buy" -> 4 [] r = "Hold" -> 3
      [] r = "Sell" -> 2 [] r = "StrongSell" -> 1 [] OTHER -> 0

ExplanationBucket(e) ==
    CASE e = "StrongBullish" -> 5 [] e = "Bullish" -> 4 [] e = "HoldRange" -> 3
      [] e = "Bearish" -> 2 [] e = "StrongBearish" -> 1 [] OTHER -> 0

(* C10: for current > 0 and future >= 0, the rating on the gauge and the
   explanation text of the same run are in the same one of the five buckets,
   the bucket of the rounded change_pct that plot_gauge returned. *)
C10_ExplanationMatchesRating ==
    (explanation # "none" /\ PositiveCurrent) =>
        /\ ExplanationBucket(explanation) = RatingBucket(rating)
        /\ ExplanationBucket(explanation) = RatingBucket(PartitionRating(chg_pct))
        /\ ExplanationBucket(explanation) \in 1 .. 5

(* A run whose change is exactly -5.000: Sell on the gauge, the bearish
   text below it. *)
C10_Witness ==
    /\ PositiveCurrent
    /\ chg_pct = F(-5)
    /\ rating = "Sell"
    /\ explanation = "Bearish"

----------------------------------------------------------------------------
(* Properties of predict_stock *)

PredictReturned == forecast # <<>>

Floor0(x) == IF x >= 0 THEN x ELSE 0

(* C3: whatever the regression produced, every row predict_stock returns
   has yhat, yhat_lower and yhat_upper >= 0, each equal to max(raw, 0). *)
C3_ForecastClamped ==
    PredictReturned =>
        /\ Len(forecast) = Len(raw_forecast)
        /\ \A i \in 1 .. Len(forecast) :
              /\ forecast[i].ds = raw_forecast[i].ds
              /\ forecast[i].yhat >= 0
              /\ forecast[i].yhat_lower >= 0
              /\ forecast[i].yhat_upper >= 0
              /\ forecast[i].yhat = Floor0(raw_forecast[i].yhat)
              /\ forecast[i].yhat_lower = Floor0(raw_forecast[i].yhat_lower)
              /\ forecast[i].yhat_upper = Floor0(raw_forecast[i].yhat_upper)

(* A forecast with a row whose raw lower bound is negative and is returned
   as 0 while its upper bound is positive and unchanged, and a row whose
   three raw values are all negative. *)
C3_Witness ==
    /\ PredictReturned
    /\ \E i \in 1 .. Len(forecast) :
          /\ raw_forecast[i].yhat_lower < 0 /\ forecast[i].yhat_lower = 0
          /\ raw_forecast[i].yhat_upper > 0
          /\ forecast[i].yhat_upper = raw_forecast[i].yhat_upper
    /\ \E i \in 1 .. Len(forecast) :
          /\ raw_forecast[i].yhat_upper < 0
          /\ forecast[i].yhat = 0 /\ forecast[i].yhat_upper = 0

----------------------------------------------------------------------------
(* Properties of the main script *)

(* C6 as stated, for the fixed part of its threshold: a history of fewer
   than 2 observations is rejected as insufficient data before any delta,
   forecast or classification, and fails in no other way.  The "not found"
   message for an empty history is counted as that rejection. *)
C6_TooShortRejected ==
    (pc # "card" /\ Len(hist) < 2) =>
        /\ err = "InsufficientDataError" \/ (pc = "notfound" /\ err = "none")
        /\ delta = None /\ pct = None
        /\ forecast = <<>>
        /\ rating = "none"

----------------------------------------------------------------------------
(* Properties of backtest_model *)

BacktestCalled == fit_input.called \/ pc \in {"render", "done"}
BacktestReturned == pc \in {"render", "done"}

Dates(df) == {df[i].ds : i \in 1 .. Len(df)}

(* C2 as stated: with len(series) < test_days + minimum_training_window
   backtest returns score 0 and an empty result, raises nothing and never
   reaches the fit. *)
C2_ShortSeriesSentinel ==
    LET minimum_training_window == 30
    IN  (pc # "backtest" /\ Len(hist) < test_days + minimum_training_window) =>
            /\ BacktestReturned
            /\ err = "none"
            /\ acc_score = F(0)
            /\ result = <<>>
            /\ ~fit_input.called

(* The held-out rows that have a forecast row of the same date *)
MatchedRows ==
    LET HasForecast(t) == \E j \in 1 .. Len(forecast_tail) : forecast_tail[j].ds = t.ds
    IN  SelectSeq(test_df, HasForecast)

(* |actual - predicted| / actual * 100 of a held-out row with actual # 0 *)
Ape(t) ==
    LET j == CHOOSE j \in 1 .. Len(forecast_tail) : forecast_tail[j].ds = t.ds
    IN  Fin(AbsInt(t.y - forecast_tail[j].yhat) * 100, t.y)

(* C5 as stated: with at least one matched row the score is 100 minus the
   mean absolute percentage error of exactly the matched rows (stated where
   every matched actual is not 0); with no matched row backtest returns the
   sentinel score 0 and an empty result. *)
C5_ScoreOrSentinel ==
    BacktestReturned =>
        LET M == MatchedRows
        IN  IF M = <<>>
            THEN acc_score = F(0) /\ result = <<>>
            ELSE (\A i \in 1 .. Len(M) : M[i].y # 0) =>
                    acc_score = FSub(F(100),
                                     FDiv(FSum([i \in 1 .. Len(M) |-> Ape(M[i])]),
                                          F(Len(M))))

(* C7 as stated: a matched held-out row whose actual is 0 makes backtest
   fail with a division-by-zero error or is left out of the result; neither
   the result nor the score holds an infinite or undefined value. *)
C7_ZeroActualHandled ==
    (BacktestCalled /\ pc # "backtest"
       /\ \E i \in 1 .. Len(MatchedRows) : MatchedRows[i].y = 0) =>
        \/ err = "ZeroDivisionError"
        \/ /\ \A i \in 1 .. Len(result) :
                 result[i].y # 0 /\ result[i].error_pct.k = "fin"
           /\ acc_score.k \in {"fin", "none"}

(* C8: for 0 < test_days < len(series), train is the first L - N rows, test
   the last N rows, train followed by test is the series, no date is in
   both, and m.fit is called with train and nothing else. *)
C8_SplitAndFitOnTrain ==
    (BacktestCalled /\ test_days > 0 /\ test_days < Len(hist)) =>
        LET L == Len(hist)
            N == test_days
        IN  /\ Len(train_df) = L - N
            /\ Len(test_df) = N
            /\ \A i \in 1 .. L - N : train_df[i] = hist[i]
            /\ \A i \in 1 .. N : test_df[i] = hist[L - N + i]
            /\ train_df \o test_df = hist
            /\ Dates(train_df) \cap Dates(test_df) = {}
            /\ fit_input = [called |-> TRUE, df |-> train_df]
            /\ Dates(fit_input.df) \cap Dates(test_df) = {}

(* The default call on the longest history: 5 rows held out, the fit on the
   other rows, and a score returned. *)
C8_Witness ==
    /\ BacktestReturned
    /\ test_days = DefaultTestDays
    /\ Len(hist) > DefaultTestDays + 1
    /\ Len(test_df) = DefaultTestDays
    /\ fit_input.df = SubSeq(hist, 1, Len(hist) - DefaultTestDays)

(* C9: every row of the result carries a date that is a held-out date and
   the date of one of the test_days future forecast rows, its actual from
   that held-out row and its prediction from that forecast row; the result
   dates are exactly the held-out dates that have a forecast row, the others
   being dropped without an error, so the result has at most test_days rows. *)
C9_ResultAlignedByDate ==
    BacktestReturned =>
        /\ err = "none"
        /\ Len(forecast_tail) = test_days
        /\ \A j \in 1 .. Len(forecast_tail) :
              /\ forecast_tail[j].ds > train_df[Len(train_df)].ds
              /\ forecast_tail[j].ds % 7 < 5
        /\ \A i \in 1 .. Len(result) :
              /\ \E t \in 1 .. Len(test_df) :
                    test_df[t].ds = result[i].ds /\ test_df[t].y = result[i].y
              /\ \E j \in 1 .. Len(forecast_tail) :
                    /\ forecast_tail[j].ds = result[i].ds
                    /\ forecast_tail[j].yhat = result[i].yhat
        /\ Dates(result) = Dates(test_df) \cap Dates(forecast_tail)
        /\ Len(result) = Cardinality(Dates(result))
        /\ Len(result) <= test_days

(* A held-out window with a market holiday in it: some held-out dates have
   a forecast row and some have none, and the result is shorter than
   test_days. *)
C9_Witness ==
    /\ BacktestReturned
    /\ Len(test_df) = test_days
    /\ Len(result) > 0
    /\ Len(result) < test_days
    /\ \E t \in 1 .. Len(test_df) : test_df[t].ds \notin Dates(forecast_tail)

====
